---------------------------- MODULE Spec2Model ----------------------------
(***************************************************************************)
(* A model of the LonelyMovie front end (src/src/App.jsx and               *)
(* src/src/VideoPlayer.jsx): title selection, source switching, the        *)
(* extract-stream request and its continuation, the dual player mode, the  *)
(* player's loading timer, the search form and its debounced autocomplete; *)
(* and of the extraction engine behind /api/extract-stream: its session    *)
(* pool, its result cache and its network capture filter.                  *)
(*                                                                         *)
(* Conventions.                                                            *)
(*  - A nullable JavaScript value is a sequence of length at most one:     *)
(*    Null is << >> and Some(v) is <<v>>.                                  *)
(*  - A falsy string (absent, null, undefined or '') is "".                *)
(*  - A template literal is the sequence of its pieces, so that `the URL   *)
(*    contains the id' is a statement about a piece; '' is << >>.          *)
(*  - alert is the dialog raised by the handler that ran last ("none" when *)
(*    that handler raised no dialog).                                      *)
(***************************************************************************)
EXTENDS Integers, Sequences, FiniteSets, TLC

VARIABLES
    location,            \* window.location.search: the movie and source parameters
    mounted,             \* the mount effect (App.jsx 48-61) has run
    selectedMovie,       \* useState(null), App.jsx 11
    activeSource,        \* useState('vidsrc.me'), App.jsx 21
    isPlayerLoading,     \* useState(false), App.jsx 25
    loadingTimeoutRef,   \* useRef(null), App.jsx 26: the pending 10 s timer
    playerMode,          \* useState('iframe'), App.jsx 29
    streamData,          \* useState(null), App.jsx 30
    isExtractingStream,  \* useState(false), App.jsx 31
    inflight,            \* the extract-stream request awaiting its response
    response,            \* the response the awaited fetch has settled with
    alert,               \* the dialog raised by the last handler
    sourceStatus,        \* useState({}), App.jsx 24: source id -> status
    iframeLoaded,        \* the iframe that is rendered has fired its load event
    searchQuery,         \* useState(''), App.jsx 8: a sequence of characters
    searchResults,       \* useState([]), App.jsx 9
    isSearching,         \* useState(false), App.jsx 10
    error,               \* useState(null), App.jsx 12
    searchInflight,      \* the search requests awaiting their response
    suggestions,         \* useState([]), App.jsx 15
    showSuggestions,     \* useState(false), App.jsx 16
    isLoadingSuggestions,\* useState(false), App.jsx 17
    debounceTimer,       \* useRef(null), App.jsx 18: the pending 300 ms timer
    acInflight,          \* the autocomplete requests awaiting their response, in issue order
    acLatest,            \* the query of the autocomplete request issued last, Null once the list was cleared after it
    free,                \* session pool: the live sessions not leased
    crashed,             \* session pool: the slots whose session died
    lease,               \* session pool: request -> handle it holds, or 0
    stage,               \* orchestrator: request -> its state
    cache,               \* result cache: key -> entry
    now,                 \* result cache: the clock
    got,                 \* result cache: what the last get returned
    seen,                \* capture filter: the exchanges observed, in order
    captured,            \* capture filter: the descriptor returned
    listening            \* capture filter: still subscribed to the session

appVars  == <<location, mounted, selectedMovie, activeSource, isPlayerLoading,
              loadingTimeoutRef, playerMode, streamData, isExtractingStream,
              inflight, response, alert>>
loadVars == <<sourceStatus, iframeLoaded>>
searchVars == <<searchQuery, searchResults, isSearching, error, searchInflight>>
autoVars == <<suggestions, showSuggestions, isLoadingSuggestions, debounceTimer,
              acInflight, acLatest>>
poolVars == <<free, crashed, lease, stage>>
cacheVars == <<cache, now, got>>
captureVars == <<seen, captured, listening>>
engineVars == <<poolVars, cacheVars, captureVars>>
uiVars == <<appVars, loadVars, searchVars, autoVars>>
vars     == <<location, mounted, selectedMovie, activeSource, isPlayerLoading,
              loadingTimeoutRef, playerMode, streamData, isExtractingStream,
              inflight, response, alert, sourceStatus, iframeLoaded,
              searchQuery, searchResults, isSearching, error, searchInflight,
              suggestions, showSuggestions, isLoadingSuggestions,
              debounceTimer, acInflight, acLatest,
              free, crashed, lease, stage, cache, now, got,
              seen, captured, listening>>

---------------------------------------------------------------------------
(* Bounds of the model *)

\* number of distinct non-empty imdb ids the title services can supply
MaxTitles == 2

\* N, the number of sessions the pool keeps (configurable)
PoolSize == 2

\* number of extraction requests that can be in progress at once
MaxRequests == 3

Null == << >>
Some(v) == <<v>>

---------------------------------------------------------------------------
(* Static data *)

\* the ids of streamingSources, in declared order
streamingSources == <<"vidsrc.me", "vidsrc.to", "embed.su", "2embed.cc", "smashystream">>

SourceIds == {streamingSources[i] : i \in 1..Len(streamingSources)}

\* imdb ids: "" is a missing id
TitleIds == {"tt" \o ToString(i) : i \in 1..MaxTitles}

MediaTypes == {"movie", "tv"}

\* the records a search result or suggestion can be: { imdb_id, type }
Titles == [imdb_id : TitleIds \cup {""}, type : MediaTypes]

\* values of the `movie' URL parameter: absent ("") or an id
MovieParams == TitleIds \cup {""}

\* values of the `source' URL parameter: absent (""), a known id, an unknown id
SourceParams == SourceIds \cup {"", "bogus.tv"}


---------------------------------------------------------------------------
(* Pure functions of App.jsx *)

\* faulty variant: only the title is tested, not its imdb_id
HasImdbIdNullOnly(movie) == movie # Null

\* `!selectedMovie || !selectedMovie.imdb_id' negated (App.jsx 193), which
\* is also `selectedMovie?.imdb_id' being truthy (App.jsx 325)
HasImdbId(movie) == movie # Null /\ movie[1].imdb_id # ""

\* getEmbedUrl(sourceId) for the selected title `movie' (a nullable):
\* the pieces of the template literal that is returned
getEmbedUrl(sourceId, movie) ==
    IF ~HasImdbId(movie) THEN << >>
    ELSE LET imdbId    == movie[1].imdb_id
             movieType == movie[1].type
         IN CASE sourceId = "vidsrc.to" ->
                   IF movieType = "tv"
                   THEN <<"https://", "vidsrc.to", "/embed/tv/", imdbId, "/1/1">>
                   ELSE <<"https://", "vidsrc.to", "/embed/movie/", imdbId>>
              [] sourceId = "vidsrc.me" ->
                   IF movieType = "tv"
                   THEN <<"https://", "vidsrc.me", "/embed/tv?imdb=", imdbId, "&season=1&episode=1">>
                   ELSE <<"https://", "vidsrc.me", "/embed/movie?imdb=", imdbId>>
              [] sourceId = "embed.su" ->
                   IF movieType = "tv"
                   THEN <<"https://", "embed.su", "/embed/tv/", imdbId, "/1/1">>
                   ELSE <<"https://", "embed.su", "/embed/movie/", imdbId>>
              [] sourceId = "2embed.cc" ->
                   <<"https://", "www.2embed.cc", "/embed/", imdbId>>
              [] sourceId = "smashystream" ->
                   IF movieType = "tv"
                   THEN <<"https://", "player.smashy.stream", "/tv/", imdbId, "?s=1&e=1">>
                   ELSE <<"https://", "player.smashy.stream", "/movie/", imdbId>>
              [] OTHER ->
                   <<"https://", "vidsrc.to", "/embed/movie/", imdbId>>

\* the URL extractStream fetches (App.jsx 330-332): the path after API_URL
\* and the query parameters it carries
ExtractRequest(movie, source) ==
    [path  |-> <<"api", "extract-stream", movie[1].imdb_id>>,
     query |-> [p \in {"source"} |-> source]]

---------------------------------------------------------------------------
(* The extract-stream endpoint as the App sees it *)

\* parsed JSON bodies that are objects: { stream_url, type, source }, with
\* title the title whose stream stream_url is; a stream_url or type of ""
\* is one that is absent
Bodies(req) ==
    [stream_url : {"", "stream"}, type : {"", "iframe", "m3u8", "mp4"},
     source : {req.query["source"]}, title : {req.path[3]}]

NoBody == [stream_url |-> "", type |-> "", source |-> "", title |-> ""]

\* how the awaited fetch and response.json() can settle for request req:
\*   status "network": fetch rejects; "error": a non-2xx status; "ok": 2xx
\*   json "invalid": response.json() rejects; "null": it yields null;
\*        "object": it yields the object `data'
Responses(req) ==
    [status : {"network", "error"}, json : {"invalid"}, data : {NoBody}]
      \cup [status : {"ok"}, json : {"invalid", "null"}, data : {NoBody}]
      \cup [status : {"ok"}, json : {"object"}, data : Bodies(req)]

\* faulty variant: the type of the body is not tested
IsDirectStreamNoTypeCheck(data) == data.stream_url # ""

\* faulty variant: the stream_url of the body is not tested
IsDirectStreamNoUrlCheck(data) == data.type # "iframe"

\* `data.stream_url && data.type !== 'iframe'' (App.jsx 337)
IsDirectStream(data) == data.stream_url # "" /\ data.type # "iframe"

\* the path extractStream's continuation takes through lines 334-351:
\*   "direct"      337-341 run to the end
\*   "directThrow" 339-340 run, then data.type.toUpperCase() throws at 341
\*                 (type is undefined) and the catch block runs
\*   "none"        the else branch at 342-345
\*   "failed"      the catch block: fetch or json() rejected, data is null
\*                 (data.stream_url throws), or a non-2xx status (347)
Outcome(resp) ==
    CASE resp.status = "network" -> "failed"
      [] resp.status = "error" -> "failed"
      [] resp.json # "object" -> "failed"
      [] IsDirectStream(resp.data) /\ resp.data.type = "" -> "directThrow"
      [] IsDirectStream(resp.data) -> "direct"
      [] OTHER -> "none"

\* faulty variant: the else branch at 342-345 raises no dialog
ExtractAlertSilent(resp) ==
    CASE Outcome(resp) = "direct" -> "success"
      [] Outcome(resp) = "none" -> "none"
      [] OTHER -> "error"

\* the dialog extractStream's continuation raises (App.jsx 341, 344, 351)
ExtractAlert(resp) ==
    CASE Outcome(resp) = "direct" -> "success"
      [] Outcome(resp) = "none" -> "warning"
      [] OTHER -> "error"

\* faulty variant: the reset sits at the end of the try block, so a throw
\* skips it
ExtractingAfterNoFinally(resp) == Outcome(resp) \in {"failed", "directThrow"}

\* isExtractingStream once the continuation has ended: the finally block
\* (App.jsx 352-354) runs on every path
ExtractingAfter(resp) == FALSE

\* faulty variant: any source parameter that is present is accepted
SourceParamAcceptedAny(source) == source # ""

\* the source parameter the mount effect accepts (App.jsx 58)
SourceParamAccepted(source) == source # "" /\ source \in SourceIds

\* what the player area renders (App.jsx 563-585)
DirectPlayerShown ==
    playerMode = "direct" /\ streamData # Null /\ streamData[1].stream_url # ""

IframeShown == selectedMovie # Null /\ ~DirectPlayerShown

\* the src of the iframe (App.jsx 578)
IframeSrc == getEmbedUrl(activeSource, selectedMovie)

\* the iframe element that is rendered: its key (App.jsx 577) and its src
\* (578); a new key mounts a new element, a new src navigates it
IframeView ==
    IF IframeShown
    THEN Some(<<selectedMovie[1].imdb_id, activeSource, IframeSrc>>)
    ELSE Null

\* after a render, the iframe has fired its load event only if it is the
\* element, with the src, that had fired it before
Rendered ==
    iframeLoaded' = (IframeView' # Null /\ IframeView' = IframeView /\ iframeLoaded)

\* the extract button is rendered and enabled (App.jsx 509, 618-626)
ExtractEnabled ==
    selectedMovie # Null /\ playerMode = "iframe" /\ ~isExtractingStream

---------------------------------------------------------------------------
(* The App: state after construction and its handlers *)

InitApp ==
    /\ location \in [movie : MovieParams, source : SourceParams]
    /\ mounted = FALSE
    /\ selectedMovie = Null
    /\ activeSource = "vidsrc.me"
    /\ isPlayerLoading = FALSE
    /\ loadingTimeoutRef = Null
    /\ playerMode = "iframe"
    /\ streamData = Null
    /\ isExtractingStream = FALSE
    /\ inflight = Null
    /\ response = Null
    /\ alert = "none"
    /\ sourceStatus = [s \in SourceIds |-> "none"]
    /\ iframeLoaded = FALSE
    /\ searchQuery = << >>
    /\ searchResults = << >>
    /\ isSearching = FALSE
    /\ error = Null
    /\ searchInflight = << >>
    /\ suggestions = << >>
    /\ showSuggestions = FALSE
    /\ isLoadingSuggestions = FALSE
    /\ debounceTimer = Null
    /\ acInflight = << >>
    /\ acLatest = Null

\* the effect that follows a change of selectedMovie or activeSource
\* (App.jsx 64-74): the URL is rewritten once a title is selected
UrlAfter(movie, source, loc) ==
    IF movie # Null
    THEN [movie |-> movie[1].imdb_id, source |-> source]
    ELSE loc

\* the mount effect (App.jsx 48-61) reads the URL parameters movie and
\* source; fetchMovieById (77-92) builds a title of type 'movie' from the id
Mount ==
    /\ ~mounted
    /\ mounted' = TRUE
    /\ selectedMovie' = IF location.movie # ""
                        THEN Some([imdb_id |-> location.movie, type |-> "movie"])
                        ELSE selectedMovie
    /\ activeSource' = IF SourceParamAccepted(location.source)
                       THEN location.source
                       ELSE activeSource
    /\ location' = UrlAfter(selectedMovie', activeSource', location)
    /\ alert' = "none"
    /\ UNCHANGED <<isPlayerLoading, loadingTimeoutRef, playerMode, streamData,
                   isExtractingStream, inflight, response>>
    /\ UNCHANGED <<sourceStatus, searchVars, autoVars, engineVars>>
    /\ Rendered

\* loadMovie (App.jsx 180-189): a click on a search result
loadMovie(movie) ==
    /\ mounted
    /\ selectedMovie' = Some(movie)
    /\ location' = UrlAfter(selectedMovie', activeSource, location)
    /\ alert' = "none"
    /\ UNCHANGED <<mounted, activeSource, isPlayerLoading, loadingTimeoutRef,
                   playerMode, streamData, isExtractingStream, inflight, response>>
    /\ showSuggestions' = FALSE
    /\ UNCHANGED <<suggestions, isLoadingSuggestions, debounceTimer, acInflight, acLatest>>
    /\ UNCHANGED <<sourceStatus, searchVars, engineVars>>
    /\ Rendered

\* handleSourceChange (App.jsx 265-268): a click on a source tab, which is
\* rendered once a title is selected (509, 520-524); it calls
\* handlePlayerLoadStart (230-246), which shows the loading overlay and
\* replaces the pending timer
handleSourceChange(sourceId) ==
    /\ mounted
    /\ selectedMovie # Null
    /\ activeSource' = sourceId
    /\ location' = UrlAfter(selectedMovie, activeSource', location)
    /\ isPlayerLoading' = TRUE
    /\ loadingTimeoutRef' = Some(sourceId)
    /\ alert' = "none"
    /\ UNCHANGED <<mounted, selectedMovie, playerMode, streamData,
                   isExtractingStream, inflight, response>>
    /\ UNCHANGED <<sourceStatus, searchVars, autoVars, engineVars>>
    /\ Rendered

\* extractStream up to its await (App.jsx 324-332): a click on the extract
\* button (618-626)
extractStream ==
    /\ mounted
    /\ ExtractEnabled
    /\ alert' = "none"
    /\ IF HasImdbId(selectedMovie)
       THEN /\ isExtractingStream' = TRUE
            /\ inflight' = Some(ExtractRequest(selectedMovie, activeSource))
            /\ response' = Null
       ELSE UNCHANGED <<isExtractingStream, inflight, response>>
    /\ UNCHANGED <<location, mounted, selectedMovie, activeSource, isPlayerLoading,
                   loadingTimeoutRef, playerMode, streamData>>
    /\ UNCHANGED <<sourceStatus, searchVars, autoVars, engineVars>>
    /\ Rendered

\* the awaited fetch settles: the endpoint answers, or the network fails
FetchSettle ==
    /\ inflight # Null
    /\ response = Null
    /\ \E resp \in Responses(inflight[1]) : response' = Some(resp)
    /\ UNCHANGED <<location, mounted, selectedMovie, activeSource, isPlayerLoading,
                   loadingTimeoutRef, playerMode, streamData,
                   isExtractingStream, inflight, alert>>
    /\ UNCHANGED <<loadVars, searchVars, autoVars, engineVars>>

\* extractStream after its await (App.jsx 334-354)
extractStreamResume ==
    /\ inflight # Null
    /\ response # Null
    /\ LET resp == response[1]
       IN /\ IF Outcome(resp) \in {"direct", "directThrow"}
             THEN /\ streamData' = Some(resp.data)
                  /\ playerMode' = "direct"
             ELSE UNCHANGED <<streamData, playerMode>>
          /\ alert' = ExtractAlert(resp)
          /\ isExtractingStream' = ExtractingAfter(resp)
    /\ inflight' = Null
    /\ response' = Null
    /\ UNCHANGED <<location, mounted, selectedMovie, activeSource, isPlayerLoading,
                   loadingTimeoutRef>>
    /\ UNCHANGED <<sourceStatus, searchVars, autoVars, engineVars>>
    /\ Rendered

\* faulty variant: streamData is not cleared
IframeModeStateKeepsData == [playerMode |-> "iframe", streamData |-> streamData]

\* the values switchToIframeMode (App.jsx 358-361) sets
IframeModeState == [playerMode |-> "iframe", streamData |-> Null]

\* switchToIframeMode as the click handler of the back button (628-634)
switchToIframeMode ==
    /\ mounted
    /\ selectedMovie # Null
    /\ playerMode # "iframe"
    /\ playerMode' = IframeModeState.playerMode
    /\ streamData' = IframeModeState.streamData
    /\ alert' = "none"
    /\ UNCHANGED <<location, mounted, selectedMovie, activeSource, isPlayerLoading,
                   loadingTimeoutRef, isExtractingStream, inflight, response>>
    /\ UNCHANGED <<sourceStatus, searchVars, autoVars, engineVars>>
    /\ Rendered

\* the Video.js player reports an error (VideoPlayer.jsx 38-44) and calls
\* onError (App.jsx 568-571); the player exists while it is rendered
VideoPlayerError ==
    /\ selectedMovie # Null
    /\ DirectPlayerShown
    /\ alert' = "playerError"
    /\ playerMode' = IframeModeState.playerMode
    /\ streamData' = IframeModeState.streamData
    /\ UNCHANGED <<location, mounted, selectedMovie, activeSource, isPlayerLoading,
                   loadingTimeoutRef, isExtractingStream, inflight, response>>
    /\ UNCHANGED <<sourceStatus, searchVars, autoVars, engineVars>>
    /\ Rendered

NextApp ==
    \/ Mount
    \/ \E movie \in Titles : loadMovie(movie)
    \/ \E s \in SourceIds : handleSourceChange(s)
    \/ extractStream
    \/ FetchSettle
    \/ extractStreamResume
    \/ switchToIframeMode
    \/ VideoPlayerError

---------------------------------------------------------------------------
(* The App: the player's loading overlay, its 10-second timer and the      *)
(* status of the sources                                                   *)

\* faulty variant: the timer's callback leaves the overlay up
TimeoutStateKeepsLoading(prev, sourceId) ==
    [sourceStatus |-> [prev EXCEPT ![sourceId] = "timeout"],
     isPlayerLoading |-> isPlayerLoading]

\* what the timer's callback sets (App.jsx 239-245)
TimeoutState(prev, sourceId) ==
    [sourceStatus |-> [prev EXCEPT ![sourceId] = "timeout"],
     isPlayerLoading |-> FALSE]

\* the 10-second timer set by handlePlayerLoadStart fires (App.jsx 239-245)
loadingTimeout ==
    /\ loadingTimeoutRef # Null
    /\ sourceStatus' = TimeoutState(sourceStatus, loadingTimeoutRef[1]).sourceStatus
    /\ isPlayerLoading' = TimeoutState(sourceStatus, loadingTimeoutRef[1]).isPlayerLoading
    /\ loadingTimeoutRef' = Null
    /\ UNCHANGED <<location, mounted, selectedMovie, activeSource, playerMode,
                   streamData, isExtractingStream, inflight, response, alert>>
    /\ UNCHANGED <<iframeLoaded, searchVars, autoVars, engineVars>>

\* the iframe fires its load event (App.jsx 583), after it was mounted or
\* its document navigated: handlePlayerLoad(activeSource) (249-262)
handlePlayerLoad ==
    /\ IframeShown
    /\ iframeLoaded' = TRUE
    /\ isPlayerLoading' = FALSE
    /\ loadingTimeoutRef' = Null
    /\ sourceStatus' = [sourceStatus EXCEPT ![activeSource] = "loaded"]
    /\ UNCHANGED <<location, mounted, selectedMovie, activeSource, playerMode,
                   streamData, isExtractingStream, inflight, response, alert>>
    /\ UNCHANGED <<searchVars, autoVars, engineVars>>

\* markSourceAsNotWorking (App.jsx 271-276), the click handler of the
\* report button (636-642)
markSourceAsNotWorking ==
    /\ mounted
    /\ selectedMovie # Null
    /\ sourceStatus' = [sourceStatus EXCEPT ![activeSource] = "not-working"]
    /\ alert' = "none"
    /\ UNCHANGED <<location, mounted, selectedMovie, activeSource, isPlayerLoading,
                   loadingTimeoutRef, playerMode, streamData,
                   isExtractingStream, inflight, response>>
    /\ UNCHANGED <<iframeLoaded, searchVars, autoVars, engineVars>>

\* source tabs, load events, the timer, the report button and the ways out
\* of direct mode
NextLoad ==
    \/ \E s \in SourceIds : handleSourceChange(s)
    \/ handlePlayerLoad
    \/ loadingTimeout
    \/ markSourceAsNotWorking
    \/ switchToIframeMode
    \/ VideoPlayerError

---------------------------------------------------------------------------
(* The App: the search box and its debounced autocomplete *)

\* what is typed has at most MaxQueryLen characters; at most MaxAcInflight
\* autocomplete requests are followed at a time
MaxQueryLen == 2
MaxAcInflight == 2

\* a string is the sequence of its characters
Chars == {" ", "a"}
Queries == UNION {[1..n -> Chars] : n \in 0..MaxQueryLen}

\* the suggestion lists /api/autocomplete can return for a query: none, or
\* a completion of the query. A response that is not ok, a body without
\* suggestions and a failed fetch all end in the empty list (105-113).
Completion(query) == [title |-> Append(query, "a")]
SuggestionsFor(query) == {<< >>, <<Completion(query)>>}

\* the input is disabled while a search runs (App.jsx 418)
InputEnabled == ~isSearching

\* handleSearchInputChange (App.jsx 121-135)
handleSearchInputChange(value) ==
    /\ InputEnabled
    /\ searchQuery' = value
    /\ showSuggestions' = TRUE
    /\ debounceTimer' = Some(value)
    /\ UNCHANGED <<suggestions, isLoadingSuggestions, acInflight, acLatest>>
    /\ UNCHANGED <<searchResults, isSearching, error, searchInflight>>
    /\ UNCHANGED <<appVars, loadVars, engineVars>>

\* the 300 ms timer fires (App.jsx 132-134) and runs fetchSuggestions up to
\* its await (95-103)
debounceTimeout ==
    /\ debounceTimer # Null
    /\ LET query == debounceTimer[1]
       IN IF Len(query) < 2
          THEN /\ suggestions' = << >>
               /\ acLatest' = Null
               /\ UNCHANGED <<isLoadingSuggestions, acInflight>>
          ELSE /\ Len(acInflight) < MaxAcInflight
               /\ isLoadingSuggestions' = TRUE
               /\ acInflight' = Append(acInflight, query)
               /\ acLatest' = Some(query)
               /\ UNCHANGED suggestions
    /\ debounceTimer' = Null
    /\ UNCHANGED <<showSuggestions, searchVars>>
    /\ UNCHANGED <<appVars, loadVars, engineVars>>

\* fetchSuggestions after its await (App.jsx 105-116), for the i-th of the
\* requests in flight: responses arrive in any order
fetchSuggestionsResume(i) ==
    /\ i \in 1..Len(acInflight)
    /\ \E list \in SuggestionsFor(acInflight[i]) : suggestions' = list
    /\ isLoadingSuggestions' = FALSE
    /\ acInflight' = [j \in 1..(Len(acInflight) - 1) |->
                        IF j < i THEN acInflight[j] ELSE acInflight[j + 1]]
    /\ UNCHANGED <<showSuggestions, debounceTimer, acLatest, searchVars>>
    /\ UNCHANGED <<appVars, loadVars, engineVars>>

\* selectSuggestion (App.jsx 138-142): a click on an item of the dropdown,
\* which is rendered while showSuggestions and the list is not empty (422)
selectSuggestion(i) ==
    /\ showSuggestions
    /\ i \in 1..Len(suggestions)
    /\ searchQuery' = suggestions[i].title
    /\ showSuggestions' = FALSE
    /\ suggestions' = << >>
    /\ acLatest' = Null
    /\ UNCHANGED <<isLoadingSuggestions, debounceTimer, acInflight>>
    /\ UNCHANGED <<searchResults, isSearching, error, searchInflight>>
    /\ UNCHANGED <<appVars, loadVars, engineVars>>

\* the input gains focus (App.jsx 416)
focusInput ==
    /\ InputEnabled
    /\ showSuggestions' = TRUE
    /\ UNCHANGED <<suggestions, isLoadingSuggestions, debounceTimer, acInflight,
                   acLatest, searchVars>>
    /\ UNCHANGED <<appVars, loadVars, engineVars>>

NextAuto ==
    \/ \E value \in Queries : handleSearchInputChange(value)
    \/ debounceTimeout
    \/ \E i \in 1..MaxAcInflight : fetchSuggestionsResume(i)
    \/ \E i \in 1..1 : selectSuggestion(i)
    \/ focusInput

---------------------------------------------------------------------------
(* The App: the search form *)

\* String.prototype.trim: white space is removed from both ends
RECURSIVE TrimStart(_)
TrimStart(query) ==
    IF query # << >> /\ Head(query) = " " THEN TrimStart(Tail(query)) ELSE query

RECURSIVE TrimEnd(_)
TrimEnd(query) ==
    IF query # << >> /\ query[Len(query)] = " "
    THEN TrimEnd(SubSeq(query, 1, Len(query) - 1))
    ELSE query

Trim(query) == TrimEnd(TrimStart(query))

\* faulty variant: the query is not trimmed before the test
IsBlankUntrimmed(query) == query = << >>

\* !searchQuery.trim() (App.jsx 148)
IsBlank(query) == Trim(query) = << >>

\* encodeURIComponent, on the characters of the model
encodeURIComponent(query) ==
    [i \in 1..Len(query) |-> IF query[i] = " " THEN "%20" ELSE query[i]]

\* the request of handleSearch (App.jsx 158)
SearchRequest(query) == [path |-> <<"api", "search", encodeURIComponent(query)>>]

\* what fetch and response.json() can produce for a search request: a
\* network failure with or without a message, a response that is not ok
\* whose body is not JSON or is JSON with or without detail, and a 2xx
\* response whose body is not JSON or carries the results array
SearchResponses ==
    [status : {"network"}, message : {"", "Failed to fetch"}]
    \cup [status : {"error"}, json : {"invalid"}, message : {"Unexpected token"}]
    \cup [status : {"error"}, json : {"object"}, detail : {"", "Search service error"}]
    \cup [status : {"ok"}, json : {"invalid"}, message : {"Unexpected token"}]
    \cup [status : {"ok"}, json : {"object"},
          results : {<< >>, <<[imdb_id |-> "tt1", type |-> "movie"]>>}]

\* the message of the Error that reaches the catch block (App.jsx 160-163,
\* 172), for a response that does not reach setSearchResults
ThrownMessage(resp) ==
    IF resp.status = "error" /\ resp.json = "object"
    THEN IF resp.detail # "" THEN resp.detail ELSE "Search failed"
    ELSE resp.message

\* what handleSearch sets after its await (App.jsx 160-174)
SearchOutcome(resp) ==
    IF resp.status = "ok" /\ resp.json = "object"
    THEN [searchResults |-> resp.results,
          error |-> IF Len(resp.results) = 0
                    THEN Some("No results found. Try a different search term.")
                    ELSE error]
    ELSE [searchResults |-> searchResults,
          error |-> IF ThrownMessage(resp) # ""
                    THEN Some(ThrownMessage(resp))
                    ELSE Some("Failed to search. Make sure the backend server is running.")]

\* faulty variant: the form can be submitted while a search runs
SubmitEnabledAlways == TRUE

\* the submit button and the input are disabled while a search runs
\* (App.jsx 418, 455)
SubmitEnabled == ~isSearching

\* handleSearch up to its await (App.jsx 145-158)
handleSearch ==
    /\ SubmitEnabled
    /\ IF IsBlank(searchQuery)
       THEN /\ error' = Some("Please enter a movie name")
            /\ UNCHANGED <<searchResults, isSearching, searchInflight>>
       ELSE /\ isSearching' = TRUE
            /\ error' = Null
            /\ searchResults' = << >>
            /\ searchInflight' = Append(searchInflight, SearchRequest(searchQuery))
    /\ UNCHANGED <<searchQuery, autoVars>>
    /\ UNCHANGED <<appVars, loadVars, engineVars>>

\* handleSearch after its await (App.jsx 160-176): the oldest request in
\* flight is answered
handleSearchResume ==
    /\ searchInflight # << >>
    /\ \E resp \in SearchResponses :
            /\ searchResults' = SearchOutcome(resp).searchResults
            /\ error' = SearchOutcome(resp).error
    /\ isSearching' = FALSE
    /\ searchInflight' = Tail(searchInflight)
    /\ UNCHANGED <<searchQuery, autoVars>>
    /\ UNCHANGED <<appVars, loadVars, engineVars>>

\* a click on the i-th search result (App.jsx 484-488)
playResult(i) ==
    /\ i \in 1..Len(searchResults)
    /\ loadMovie(searchResults[i])

\* typing, submitting, the search response and a click on a result
NextSearch ==
    \/ Mount
    \/ \E value \in Queries : handleSearchInputChange(value)
    \/ handleSearch
    \/ handleSearchResume
    \/ \E i \in 1..1 : playResult(i)

---------------------------------------------------------------------------
(* The extraction engine's session pool and the orchestrator's use of it  *)
(* (spec.md 4.2, 4.4, 5)                                                   *)

Handles == 1..PoolSize

\* cache keys: (title identifier, source id) pairs
CacheKeys == {<<"tt1", "vidsrc.me">>, <<"tt1", "vidsrc.to">>}

Requests == 1..MaxRequests

FailedStates == {"Failed:PoolExhausted", "Failed:NavigationError",
                 "Failed:Timeout", "Failed:InternalError"}

Terminal == {"Completed"} \cup FailedStates

\* the states in which a request holds a session lease
Leasing == {"Navigating", "Capturing"}

InitPool ==
    /\ free = Handles
    /\ crashed = {}
    /\ lease = [r \in Requests |-> 0]
    /\ stage = [r \in Requests |-> "Idle"]

\* faulty variant: acquire hands out any handle, leased or not
AvailableAny == Handles

\* the handles acquire can hand out: a free session, or a new session made
\* in the slot of one that died
Available == free \cup crashed

\* faulty variant: release forgets the handle
ReleasedDropped(h) == free

\* release(handle): the session goes back to the free pool
Released(h) == free \cup {h}

\* an inbound call creates the request
Submit(r) ==
    /\ stage[r] = "Idle"
    /\ stage' = [stage EXCEPT ![r] = "Queued"]
    /\ UNCHANGED <<free, crashed, lease>>
    /\ UNCHANGED <<uiVars, cacheVars, captureVars>>

StartCacheCheck(r) ==
    /\ stage[r] = "Queued"
    /\ stage' = [stage EXCEPT ![r] = "CacheCheck"]
    /\ UNCHANGED <<free, crashed, lease>>
    /\ UNCHANGED <<uiVars, cacheVars, captureVars>>

\* a cache hit completes the request without a session
CacheHit(r) ==
    /\ stage[r] = "CacheCheck"
    /\ stage' = [stage EXCEPT ![r] = "Completed"]
    /\ UNCHANGED <<free, crashed, lease>>
    /\ UNCHANGED <<uiVars, cacheVars, captureVars>>

CacheMiss(r) ==
    /\ stage[r] = "CacheCheck"
    /\ stage' = [stage EXCEPT ![r] = "SessionWait"]
    /\ UNCHANGED <<free, crashed, lease>>
    /\ UNCHANGED <<uiVars, cacheVars, captureVars>>

\* acquire succeeds: the request leases handle h and navigates
Acquire(r, h) ==
    /\ stage[r] = "SessionWait"
    /\ h \in Available
    /\ lease' = [lease EXCEPT ![r] = h]
    /\ free' = free \ {h}
    /\ crashed' = crashed \ {h}
    /\ stage' = [stage EXCEPT ![r] = "Navigating"]
    /\ UNCHANGED <<uiVars, cacheVars, captureVars>>

\* acquire waited its timeout out with no slot free: Busy
AcquireBusy(r) ==
    /\ stage[r] = "SessionWait"
    /\ Available = {}
    /\ stage' = [stage EXCEPT ![r] = "Failed:PoolExhausted"]
    /\ UNCHANGED <<free, crashed, lease>>
    /\ UNCHANGED <<uiVars, cacheVars, captureVars>>

\* the page loaded: the capture filter takes over
Navigated(r) ==
    /\ stage[r] = "Navigating"
    /\ stage' = [stage EXCEPT ![r] = "Capturing"]
    /\ UNCHANGED <<free, crashed, lease>>
    /\ UNCHANGED <<uiVars, cacheVars, captureVars>>

\* a page-load error: the lease is released
NavigationError(r) ==
    /\ stage[r] = "Navigating"
    /\ stage' = [stage EXCEPT ![r] = "Failed:NavigationError"]
    /\ free' = Released(lease[r])
    /\ lease' = [lease EXCEPT ![r] = 0]
    /\ UNCHANGED crashed
    /\ UNCHANGED <<uiVars, cacheVars, captureVars>>

\* capture returned a descriptor (a match, or none at the capture deadline)
Captured(r) ==
    /\ stage[r] = "Capturing"
    /\ stage' = [stage EXCEPT ![r] = "Completed"]
    /\ free' = Released(lease[r])
    /\ lease' = [lease EXCEPT ![r] = 0]
    /\ UNCHANGED crashed
    /\ UNCHANGED <<uiVars, cacheVars, captureVars>>

\* the request's overall deadline elapses, in any state that is not terminal
Deadline(r) ==
    /\ stage[r] \notin Terminal \cup {"Idle"}
    /\ stage' = [stage EXCEPT ![r] = "Failed:Timeout"]
    /\ IF lease[r] # 0
       THEN /\ free' = Released(lease[r])
            /\ lease' = [lease EXCEPT ![r] = 0]
       ELSE UNCHANGED <<free, lease>>
    /\ UNCHANGED crashed
    /\ UNCHANGED <<uiVars, cacheVars, captureVars>>

\* the automation engine crashes under the request: the session is
\* discarded, never returned to the free pool
Crash(r) ==
    /\ stage[r] \in Leasing
    /\ stage' = [stage EXCEPT ![r] = "Failed:InternalError"]
    /\ crashed' = crashed \cup {lease[r]}
    /\ lease' = [lease EXCEPT ![r] = 0]
    /\ UNCHANGED free
    /\ UNCHANGED <<uiVars, cacheVars, captureVars>>

\* the request is destroyed on completion
Retire(r) ==
    /\ stage[r] \in Terminal
    /\ stage' = [stage EXCEPT ![r] = "Idle"]
    /\ UNCHANGED <<free, crashed, lease>>
    /\ UNCHANGED <<uiVars, cacheVars, captureVars>>

NextPool ==
    \/ \E r \in Requests : Submit(r)
    \/ \E r \in Requests : StartCacheCheck(r)
    \/ \E r \in Requests : CacheHit(r)
    \/ \E r \in Requests : CacheMiss(r)
    \/ \E r \in Requests, h \in Handles : Acquire(r, h)
    \/ \E r \in Requests : AcquireBusy(r)
    \/ \E r \in Requests : Navigated(r)
    \/ \E r \in Requests : NavigationError(r)
    \/ \E r \in Requests : Captured(r)
    \/ \E r \in Requests : Deadline(r)
    \/ \E r \in Requests : Crash(r)
    \/ \E r \in Requests : Retire(r)

---------------------------------------------------------------------------
(* The Result Cache: get and put over a clock, per-entry expiry *)

\* the clock is followed up to MaxTime; a put takes a TTL of 1..MaxTtl
MaxTime == 3
MaxTtl == 2

\* what is cached: a descriptor, or the negative marker of a failure
CacheValues == {"manifest", "negative"}

\* faulty variant: entries never expire
ExpiredNever(entry, t) == FALSE

\* the clock has passed the entry's expiry
Expired(entry, t) == t > entry.expiry

\* what get(key) can return at time t: a miss (Null) or the entry. At the
\* very instant of the expiry the contract allows either.
Lookup(k, t) ==
    IF cache[k] = Null \/ Expired(cache[k][1], t)
    THEN {Null}
    ELSE IF t = cache[k][1].expiry THEN {Null, cache[k]} ELSE {cache[k]}

\* put(key, descriptor, ttl): the last writer wins
CachePut(k, v, ttl) ==
    /\ cache' = [cache EXCEPT ![k] = Some([value |-> v, expiry |-> now + ttl])]
    /\ UNCHANGED <<now, got>>
    /\ UNCHANGED <<uiVars, poolVars, captureVars>>

\* get(key) -> entry | miss
CacheGet(k) ==
    /\ \E e \in Lookup(k, now) : got' = Some([key |-> k, at |-> now, entry |-> e])
    /\ UNCHANGED <<cache, now>>
    /\ UNCHANGED <<uiVars, poolVars, captureVars>>

\* the expiry check drops an entry whose expiry has passed
CacheExpire(k) ==
    /\ cache[k] # Null
    /\ Expired(cache[k][1], now)
    /\ cache' = [cache EXCEPT ![k] = Null]
    /\ UNCHANGED <<now, got>>
    /\ UNCHANGED <<uiVars, poolVars, captureVars>>

\* the clock advances
Tick ==
    /\ now < MaxTime
    /\ now' = now + 1
    /\ UNCHANGED <<cache, got>>
    /\ UNCHANGED <<uiVars, poolVars, captureVars>>

NextCache ==
    \/ \E k \in CacheKeys, v \in CacheValues, ttl \in 1..MaxTtl : CachePut(k, v, ttl)
    \/ \E k \in CacheKeys : CacheGet(k)
    \/ \E k \in CacheKeys : CacheExpire(k)
    \/ Tick

---------------------------------------------------------------------------
(* The Network Capture Filter: ordered rules over a session's exchanges *)

\* the exchanges of one session are followed up to MaxExchanges
MaxExchanges == 3

\* a URL is its pieces; an exchange is a URL and a response content type
ExchangeUrls == {<<"page", ".html">>, <<"a", ".m3u8">>, <<"b", ".m3u8">>,
                 <<"c", ".mp4">>}
ContentTypes == {"text/html", "application/vnd.apple.mpegurl", "video/mp4"}
Exchanges == [url : ExchangeUrls, ctype : ContentTypes]

\* the source profile's matching rules, in declared order
MatchingRules ==
    << [test |-> "urlContains", arg |-> ".m3u8", subtype |-> "hls"],
       [test |-> "contentType", arg |-> "application/vnd.apple.mpegurl",
        subtype |-> "hls"],
       [test |-> "urlContains", arg |-> ".mp4", subtype |-> "mp4"],
       [test |-> "contentType", arg |-> "video/mp4", subtype |-> "mp4"] >>

Satisfies(x, rule) ==
    IF rule.test = "urlContains"
    THEN \E i \in 1..Len(x.url) : x.url[i] = rule.arg
    ELSE x.ctype = rule.arg

\* the rules are tried from index i on; 0 when none is satisfied
RECURSIVE RuleFrom(_, _)
RuleFrom(x, i) ==
    IF i > Len(MatchingRules) THEN 0
    ELSE IF Satisfies(x, MatchingRules[i]) THEN i
    ELSE RuleFrom(x, i + 1)

\* faulty variant: the last satisfied rule decides
LastRule(x) ==
    IF \E n \in 1..Len(MatchingRules) : Satisfies(x, MatchingRules[n])
    THEN CHOOSE n \in 1..Len(MatchingRules) :
            /\ Satisfies(x, MatchingRules[n])
            /\ \A m \in (n + 1)..Len(MatchingRules) : ~Satisfies(x, MatchingRules[m])
    ELSE 0

\* the rule that decides exchange x, 0 when x matches none
FirstRule(x) == RuleFrom(x, 1)

\* the descriptor built from exchange x under rule n
Descriptor(x, n) ==
    [kind |-> IF MatchingRules[n].subtype = "hls" THEN "manifest" ELSE "file",
     url |-> x.url,
     subtype |-> MatchingRules[n].subtype]

NoneDescriptor == [kind |-> "none", url |-> << >>, subtype |-> ""]

\* the session makes a network exchange; a listening filter tries its
\* rules on it and stops listening on a match
Observe(x) ==
    /\ Len(seen) < MaxExchanges
    /\ seen' = Append(seen, x)
    /\ IF listening /\ FirstRule(x) # 0
       THEN /\ captured' = Some(Descriptor(x, FirstRule(x)))
            /\ listening' = FALSE
       ELSE UNCHANGED <<captured, listening>>
    /\ UNCHANGED <<uiVars, poolVars, cacheVars>>

\* the capture deadline elapses with no match: none
CaptureDeadline ==
    /\ listening
    /\ captured' = Some(NoneDescriptor)
    /\ listening' = FALSE
    /\ UNCHANGED seen
    /\ UNCHANGED <<uiVars, poolVars, cacheVars>>

NextCapture ==
    \/ \E x \in Exchanges : Observe(x)
    \/ CaptureDeadline

---------------------------------------------------------------------------
(* Specifications *)

\* the result cache and the capture filter before their first use
InitCache ==
    /\ cache = [k \in CacheKeys |-> Null]
    /\ now = 0
    /\ got = Null

InitCapture ==
    /\ seen = << >>
    /\ captured = Null
    /\ listening = TRUE

Init == InitApp /\ InitPool /\ InitCache /\ InitCapture

\* the App's title selection, source switching, extraction and player mode
Next == NextApp

Spec == Init /\ [][Next]_vars

\* the promise of a fetch is settled by the browser, and a settled promise's
\* continuation is run by the event loop
FairSpec == Spec /\ WF_vars(FetchSettle) /\ WF_vars(extractStreamResume)

\* the engine's requests competing for the session pool
PoolNext == NextPool

\* the App is left as constructed, at a URL without parameters
PoolInit == Init /\ location = [movie |-> "", source |-> ""]

PoolSpec == PoolInit /\ [][PoolNext]_vars

\* a request's overall deadline is a clock running out: once a request is
\* under way its deadline elapses unless the request ends first
FairPoolSpec == PoolSpec /\ \A r \in Requests : WF_vars(Deadline(r))

\* the result cache under puts, gets, expiry checks and the clock
CacheNext == NextCache

CacheSpec == PoolInit /\ [][CacheNext]_vars

\* one capture over the exchanges of one session
CaptureNext == NextCapture

CaptureSpec == PoolInit /\ [][CaptureNext]_vars

\* the App with a title selected: its iframe just mounted, or in direct
\* mode with a stream extracted for the title from the active source
InitLoad ==
    /\ location = [movie |-> "tt1", source |-> "vidsrc.me"]
    /\ mounted = TRUE
    /\ selectedMovie = Some([imdb_id |-> "tt1", type |-> "movie"])
    /\ activeSource = "vidsrc.me"
    /\ isPlayerLoading = FALSE
    /\ loadingTimeoutRef = Null
    /\ \/ playerMode = "iframe" /\ streamData = Null /\ alert = "none"
       \/ /\ playerMode = "direct"
          /\ streamData = Some([stream_url |-> "stream", type |-> "m3u8",
                                source |-> "vidsrc.me", title |-> "tt1"])
          /\ alert = "success"
    /\ isExtractingStream = FALSE
    /\ inflight = Null
    /\ response = Null
    /\ sourceStatus = [s \in SourceIds |-> "none"]
    /\ iframeLoaded = FALSE
    /\ searchQuery = << >>
    /\ searchResults = << >>
    /\ isSearching = FALSE
    /\ error = Null
    /\ searchInflight = << >>
    /\ suggestions = << >>
    /\ showSuggestions = FALSE
    /\ isLoadingSuggestions = FALSE
    /\ debounceTimer = Null
    /\ acInflight = << >>
    /\ acLatest = Null

LoadInit == InitLoad /\ InitPool /\ InitCache /\ InitCapture

LoadNext == NextLoad

LoadSpec == LoadInit /\ [][LoadNext]_vars

\* a timer that is pending fires
FairLoadSpec == LoadSpec /\ WF_vars(loadingTimeout)

\* typing, the debounce timer, autocomplete responses and the dropdown
AutoNext == NextAuto

AutoSpec == PoolInit /\ [][AutoNext]_vars

\* the search form
SearchNext == NextSearch

SearchSpec == PoolInit /\ [][SearchNext]_vars

\* the promise of the search request is settled and its continuation run
FairSearchSpec == SearchSpec /\ WF_vars(handleSearchResume)

---------------------------------------------------------------------------
(* Properties *)

\* a step in which extractStream's continuation runs
ExtractionEnds == inflight # Null /\ response # Null /\ inflight' = Null

\* the response is a 2xx one whose body is an object with a non-empty
\* stream_url and a type other than 'iframe'
CarriesDirectStream(resp) ==
    /\ resp.status = "ok"
    /\ resp.json = "object"
    /\ resp.data.stream_url # ""
    /\ resp.data.type # "iframe"

\* the response is a 2xx one whose body is an object that reports `none':
\* type 'iframe', or no stream_url
ReportsNone(resp) ==
    /\ resp.status = "ok"
    /\ resp.json = "object"
    /\ (resp.data.type = "iframe" \/ resp.data.stream_url = "")

\* no title is selected, or the selected title has no imdb_id
NoTitleId == selectedMovie = Null \/ selectedMovie[1].imdb_id = ""

\* C1: in every reachable state, playerMode = 'direct' implies that
\* streamData is a body with a non-empty stream_url and a type other than
\* 'iframe', and streamData is only ever set to the body of the 2xx
\* response the continuation is resuming with, which carries a direct
\* stream; from any other response the player does not enter direct mode.
C1_DirectModeHoldsDirectStream ==
    /\ [](playerMode = "direct" =>
            /\ streamData # Null
            /\ streamData[1].stream_url # ""
            /\ streamData[1].type # "iframe")
    /\ [][(streamData' # streamData /\ streamData' # Null) =>
            /\ ExtractionEnds
            /\ CarriesDirectStream(response[1])
            /\ streamData' = Some(response[1].data)]_vars
    /\ [][(playerMode # "direct" /\ playerMode' = "direct") =>
            /\ ExtractionEnds
            /\ CarriesDirectStream(response[1])
            /\ streamData' = Some(response[1].data)]_vars

C1_Witness ==
    /\ playerMode = "direct"
    /\ streamData # Null
    /\ streamData[1].type = "m3u8"
    /\ alert = "success"

\* C2: whenever extractStream's continuation runs on a response that
\* carries no direct stream (a non-2xx status, a rejected fetch or json(),
\* a null body, or a 2xx body with type 'iframe' or without stream_url),
\* playerMode is 'iframe' before and after, streamData is unchanged, and
\* the iframe is what the player area shows.
C2_NoDirectStreamKeepsIframe ==
    [][(ExtractionEnds /\ ~CarriesDirectStream(response[1])) =>
          /\ playerMode = "iframe"
          /\ playerMode' = "iframe"
          /\ streamData' = streamData
          /\ IframeShown']_vars

C2_Witness ==
    /\ alert = "error"
    /\ playerMode = "iframe"
    /\ streamData = Null
    /\ inflight = Null
    /\ IframeShown

\* C3 as stated: when the continuation runs on a `none' outcome (a 2xx
\* body with type 'iframe' or without stream_url), the App raises no dialog.
C3_NoneIsSilent ==
    [][(ExtractionEnds /\ ReportsNone(response[1])) => alert' = "none"]_vars

\* C3 as amended: on a `none' outcome the App keeps the iframe fallback
\* (playerMode 'iframe', streamData unchanged) and raises the warning
\* dialog 'Could not extract direct stream. Using iframe mode instead.',
\* not the error dialog.
C3_NoneFallsBackWithWarning ==
    [][(ExtractionEnds /\ ReportsNone(response[1])) =>
          /\ alert' = "warning"
          /\ playerMode' = "iframe"
          /\ streamData' = streamData]_vars

C3_Witness ==
    /\ alert = "warning"
    /\ playerMode = "iframe"
    /\ ~isExtractingStream
    /\ inflight = Null

\* C4: every extraction request the App issues has the path
\* /api/extract-stream/{imdb_id of the selected title} and carries the
\* active source, the selected title's media type, and for a tv title the
\* season and episode, as query parameters.
C4_RequestCarriesSourceAndType ==
    [][(inflight = Null /\ inflight' # Null) =>
          LET req == inflight'[1]
          IN /\ req.path = <<"api", "extract-stream", selectedMovie[1].imdb_id>>
             /\ "source" \in DOMAIN req.query
             /\ req.query["source"] = activeSource
             /\ "type" \in DOMAIN req.query
             /\ req.query["type"] = selectedMovie[1].type
             /\ (selectedMovie[1].type = "tv" =>
                   {"season", "episode"} \subseteq DOMAIN req.query)]_vars

\* C5: an extraction that was started always comes to reset
\* isExtractingStream, and when its continuation ran on a response that
\* carries no direct stream the extract button is rendered and enabled
\* again.
C5_ExtractingIsReset ==
    /\ (isExtractingStream ~> ~isExtractingStream)
    /\ [][(ExtractionEnds /\ ~CarriesDirectStream(response[1])) =>
            ExtractEnabled']_vars

C5_Witness ==
    /\ alert \in {"warning", "error"}
    /\ inflight = Null
    /\ ExtractEnabled

\* C6: activeSource is one of the five ids of streamingSources in every
\* reachable state, so is the source of every request in flight, and the
\* mount effect keeps 'vidsrc.me' when the URL's source parameter is
\* not one of them.
C6_ActiveSourceIsKnown ==
    /\ [](/\ activeSource \in {"vidsrc.me", "vidsrc.to", "embed.su",
                                "2embed.cc", "smashystream"}
          /\ (inflight # Null => inflight[1].query["source"] \in SourceIds))
    /\ [][(~mounted /\ mounted' /\ location.source \notin SourceIds) =>
            activeSource' = "vidsrc.me"]_vars

C6_Witness ==
    /\ mounted
    /\ location.source = "bogus.tv"
    /\ activeSource = "vidsrc.me"

\* the host each source's embed page is served from
EmbedHost(sourceId) ==
    CASE sourceId = "vidsrc.me" -> "vidsrc.me"
      [] sourceId = "vidsrc.to" -> "vidsrc.to"
      [] sourceId = "embed.su" -> "embed.su"
      [] sourceId = "2embed.cc" -> "www.2embed.cc"
      [] sourceId = "smashystream" -> "player.smashy.stream"

\* the selected title with the other media type
OtherType(movie) ==
    Some([movie[1] EXCEPT !.type = IF @ = "tv" THEN "movie" ELSE "tv"])

\* C7: for every known source and the selected title (with an imdb id),
\* getEmbedUrl is on that source's host, contains the imdb id, and differs
\* from the URL of the title with the same id and the other media type.
C7_EmbedUrlUsesIdAndType ==
    \A s \in SourceIds :
        ~NoTitleId =>
            LET url == getEmbedUrl(s, selectedMovie)
            IN /\ Len(url) >= 2
               /\ url[1] = "https://"
               /\ url[2] = EmbedHost(s)
               /\ \E i \in 1..Len(url) : url[i] = selectedMovie[1].imdb_id
               /\ url # getEmbedUrl(s, OtherType(selectedMovie))

\* C8: with no title selected or a selected title without imdb_id,
\* getEmbedUrl returns '' for every source and a call of extractStream
\* issues no request and leaves isExtractingStream, playerMode and
\* streamData as they are; with an imdb_id, the request's path and the
\* embed URL carry the id as it is.
C8_TitleIdPresenceOnly ==
    /\ [](\A s \in SourceIds :
            IF NoTitleId
            THEN getEmbedUrl(s, selectedMovie) = << >>
            ELSE \E i \in 1..Len(getEmbedUrl(s, selectedMovie)) :
                    getEmbedUrl(s, selectedMovie)[i] = selectedMovie[1].imdb_id)
    /\ [][(extractStream /\ NoTitleId) =>
            UNCHANGED <<inflight, response, isExtractingStream, playerMode,
                        streamData>>]_vars
    /\ [][(extractStream /\ ~NoTitleId) =>
            /\ inflight' # Null
            /\ inflight'[1].path[3] = selectedMovie[1].imdb_id]_vars

C8_Witness ==
    /\ mounted
    /\ selectedMovie # Null
    /\ selectedMovie[1].imdb_id = ""
    /\ ExtractEnabled
    /\ inflight = Null
    /\ IframeSrc = << >>

\* C9: while the App is in direct mode the Video.js player is rendered,
\* and whenever it reports an error the App is back in playerMode
\* 'iframe' with streamData null and shows the iframe with the embed URL
\* of the active source.
C9_PlayerErrorFallsBackToIframe ==
    /\ [](playerMode = "direct" => (selectedMovie # Null /\ DirectPlayerShown))
    /\ [][VideoPlayerError =>
            /\ playerMode = "direct"
            /\ playerMode' = "iframe"
            /\ streamData' = Null
            /\ IframeShown'
            /\ IframeSrc' = getEmbedUrl(activeSource, selectedMovie)]_vars

C9_Witness ==
    /\ alert = "playerError"
    /\ playerMode = "iframe"
    /\ streamData = Null
    /\ IframeShown

\* the handles that are leased
Leased == {lease[r] : r \in {q \in Requests : lease[q] # 0}}

\* C10: no two requests hold the same handle, at most PoolSize handles are
\* leased, a request that is granted a lease gets a handle no request
\* holds, and while all PoolSize handles are leased no request is granted
\* one: a waiting request stays in SessionWait or fails until a release.
C10_LeaseIsExclusive ==
    /\ [](/\ \A r1, r2 \in Requests :
                (r1 # r2 /\ lease[r1] # 0) => lease[r1] # lease[r2]
          /\ Cardinality(Leased) <= PoolSize
          /\ \A r \in Requests : (lease[r] # 0 <=> stage[r] \in Leasing))
    /\ [][\A r \in Requests :
            (lease[r] = 0 /\ lease'[r] # 0) =>
                /\ lease'[r] \notin Leased
                /\ Cardinality(Leased) < PoolSize]_vars

C10_Witness ==
    /\ Cardinality(Leased) = PoolSize
    /\ \E r \in Requests : stage[r] = "Failed:PoolExhausted"

\* a step in which request r leaves Navigating or Capturing
ExitsLeasing(r) == stage[r] \in Leasing /\ stage'[r] \notin Leasing

\* C11: a request that holds a lease eventually holds none (at any time a
\* moment at which it holds none is still to come); on every exit
\* from Navigating or Capturing the request's lease is dropped, and on
\* success, failure and timeout the session is back in the free pool; no
\* Completed or Failed request holds a lease.
C11_LeaseIsReleased ==
    /\ \A r \in Requests : []<>(lease[r] = 0)
    /\ [][\A r \in Requests :
            ExitsLeasing(r) =>
                /\ lease'[r] = 0
                /\ stage'[r] \in {"Completed", "Failed:NavigationError",
                                  "Failed:Timeout"} => lease[r] \in free']_vars
    /\ [](\A r \in Requests : stage[r] \in Terminal => lease[r] = 0)

C11_Witness ==
    /\ \E r \in Requests : stage[r] = "Failed:NavigationError" /\ lease[r] = 0
    /\ \E r \in Requests : stage[r] = "Completed"
    /\ free = Handles

\* C12: put(key, descriptor, ttl) stores an entry that expires ttl after
\* the put, and a get issued once the clock is past an entry's expiry is a
\* miss; a get that is not a miss returns the entry stored under its key.
C12_NoEntryPastExpiry ==
    /\ [][\A k \in CacheKeys, v \in CacheValues, ttl \in 1..MaxTtl :
            CachePut(k, v, ttl) => cache'[k][1].expiry = now + ttl]_vars
    /\ [][\A k \in CacheKeys :
            CacheGet(k) =>
                /\ (cache[k] # Null /\ now > cache[k][1].expiry)
                        => got'[1].entry = Null
                /\ got'[1].entry # Null => got'[1].entry = cache[k]]_vars

\* a get found the entry of its key expired and missed
C12_Witness ==
    /\ got # Null
    /\ got[1].entry = Null
    /\ cache[got[1].key] # Null
    /\ cache[got[1].key][1].expiry < got[1].at

\* exchange x satisfies rule n and none of the rules declared before it
DecidedBy(x, n) ==
    /\ Satisfies(x, MatchingRules[n])
    /\ \A m \in 1..(n - 1) : ~Satisfies(x, MatchingRules[m])

\* C13: a descriptor other than none is the one built from the first
\* exchange of the session that satisfies any rule, under the first rule in
\* declared order that the exchange satisfies, whatever number of exchanges
\* that match no rule came before it; and once capture has returned, the
\* exchanges that follow do not change the result.
C13_FirstMatchWins ==
    /\ [](captured # Null /\ captured[1].kind # "none" =>
            \E i \in 1..Len(seen), n \in 1..Len(MatchingRules) :
                /\ \A j \in 1..(i - 1), m \in 1..Len(MatchingRules) :
                        ~Satisfies(seen[j], MatchingRules[m])
                /\ DecidedBy(seen[i], n)
                /\ captured[1].url = seen[i].url
                /\ captured[1].subtype = MatchingRules[n].subtype
                /\ captured[1].kind =
                     (IF MatchingRules[n].subtype = "hls" THEN "manifest" ELSE "file"))
    /\ [][captured # Null => captured' = captured]_vars

\* the match came second, satisfied rules of both subtypes, and another
\* matching exchange followed it
C13_Witness ==
    /\ Len(seen) = 3
    /\ captured # Null
    /\ captured[1].url = seen[2].url
    /\ \E n, m \in 1..Len(MatchingRules) :
            /\ Satisfies(seen[2], MatchingRules[n])
            /\ Satisfies(seen[2], MatchingRules[m])
            /\ MatchingRules[n].subtype # MatchingRules[m].subtype
    /\ \E n \in 1..Len(MatchingRules) : Satisfies(seen[3], MatchingRules[n])
    /\ seen[3].url # seen[2].url

\* C14: whenever the direct player is the mode, the stream it holds was
\* extracted for the title that is selected and the source that is active.
C14_DirectStreamIsCurrent ==
    (playerMode = "direct" /\ streamData # Null) =>
        /\ selectedMovie # Null
        /\ streamData[1].title = selectedMovie[1].imdb_id
        /\ streamData[1].source = activeSource

\* the iframe player of source s is on the page and has finished loading
PlayerLoaded(s) == IframeShown /\ activeSource = s /\ iframeLoaded

\* C15: a source gets the status 'timeout' only if its player has not
\* finished loading when the 10-second timer fires; a load event cancels
\* the pending timer and gives the active source the status 'loaded'.
C15_TimeoutOnlyIfNotLoaded ==
    /\ [][\A s \in SourceIds :
            (sourceStatus[s] # "timeout" /\ sourceStatus'[s] = "timeout")
                => ~PlayerLoaded(s)]_vars
    /\ [][handlePlayerLoad =>
            /\ loadingTimeoutRef' = Null
            /\ sourceStatus'[activeSource] = "loaded"]_vars

\* C16: while the loading overlay is displayed it is eventually taken
\* down, and it is taken down by the player's load event or by the timer.
C16_LoadingEnds ==
    /\ isPlayerLoading ~> ~isPlayerLoading
    /\ [][(isPlayerLoading /\ ~isPlayerLoading') =>
            (handlePlayerLoad \/ loadingTimeout)]_vars
    /\ [][\A s \in SourceIds : handleSourceChange(s) =>
            (isPlayerLoading' /\ loadingTimeoutRef' # Null)]_vars

\* a source was selected in direct mode, where no iframe exists to fire a
\* load event, and the timer took the overlay down
C16_Witness ==
    /\ DirectPlayerShown
    /\ ~isPlayerLoading
    /\ loadingTimeoutRef = Null
    /\ sourceStatus[activeSource] = "timeout"

\* a step in which an autocomplete request is sent
AutocompleteSent == Len(acInflight') > Len(acInflight)

\* C17: at most one debounce timer is pending; an autocomplete request is
\* sent only for the value the input has held, unchanged, since the timer
\* was set; a value shorter than 2 characters causes no request and clears
\* the suggestions list.
C17_DebouncedAutocomplete ==
    /\ [](Len(debounceTimer) <= 1)
    /\ [][AutocompleteSent =>
            /\ debounceTimer # Null
            /\ acInflight'[Len(acInflight')] = debounceTimer[1]
            /\ debounceTimer[1] = searchQuery]_vars
    /\ [][(debounceTimeout /\ Len(debounceTimer[1]) < 2) =>
            (~AutocompleteSent /\ suggestions' = << >>)]_vars

\* C18: once no autocomplete request is in flight, the suggestions list is
\* a result for the query issued last, and it is empty if the list was
\* cleared after that request was issued (by selectSuggestion, or by an
\* input shorter than 2 characters).
C18_SuggestionsAreLatest ==
    acInflight = << >> =>
        IF acLatest = Null
        THEN suggestions = << >>
        ELSE \/ suggestions = << >>
             \/ \A i \in 1..Len(suggestions) :
                    suggestions[i].title = Append(acLatest[1], "a")

\* every character of the query is white space (the empty query included)
WhitespaceOnly(query) == \A i \in 1..Len(query) : query[i] = " "

\* C19: submitting an empty or whitespace-only query sets the error
\* 'Please enter a movie name', sends no request and leaves searchResults
\* and isSearching as they were.
C19_BlankQueryIsRejected ==
    [][(handleSearch /\ WhitespaceOnly(searchQuery)) =>
            /\ error' = Some("Please enter a movie name")
            /\ searchInflight' = searchInflight
            /\ searchResults' = searchResults
            /\ isSearching' = isSearching]_vars

\* a whitespace-only query was submitted over the results of an earlier
\* search
C19_Witness ==
    /\ searchQuery # << >>
    /\ WhitespaceOnly(searchQuery)
    /\ error = Some("Please enter a movie name")
    /\ searchResults # << >>
    /\ ~isSearching
    /\ searchInflight = << >>

\* a step in which a search completes
SearchCompletes == Len(searchInflight') < Len(searchInflight)

\* a search has completed and none is running
SearchHasCompleted ==
    /\ ~isSearching
    /\ \/ searchResults # << >>
       \/ error \notin {Null, Some("Please enter a movie name")}

\* C20: a search that runs eventually ends, at most one search request is
\* in flight, and once a search has completed error is null exactly when
\* searchResults is not empty.
C20_ErrorIffNoResults ==
    /\ isSearching ~> ~isSearching
    /\ [](Len(searchInflight) <= 1)
    /\ [](SearchHasCompleted => (error = Null <=> searchResults # << >>))

\* C20 as amended: a search that runs eventually ends, at most one search
\* request is in flight and isSearching is true exactly while it is, and
\* at the moment a search completes error is null exactly when
\* searchResults is not empty.
C20_ErrorIffNoResultsOnCompletion ==
    /\ isSearching ~> ~isSearching
    /\ [](Len(searchInflight) <= 1 /\ (isSearching <=> searchInflight # << >>))
    /\ [][SearchCompletes =>
            /\ ~isSearching'
            /\ error' = Null <=> searchResults' # << >>]_vars

\* a search completed with zero results
C20_Witness ==
    /\ ~isSearching
    /\ searchInflight = << >>
    /\ searchResults = << >>
    /\ error = Some("No results found. Try a different search term.")

============================================================================
